---- MODULE Spec2Model ----
(***************************************************************************)
(* The request orchestrator of src/app.py (analyze_city, get_progress,     *)
(* serve_map) and the satellite pipeline of src/satellite_core.py          *)
(* (process_satellite_data and its layer fetchers), as a state machine.    *)
(* Each handler runs on its own thread; the only state the threads share   *)
(* is the module-level dictionary `progress` of src/app.py.  The geocoder, *)
(* the earth-observation service, the wall clock and the file system are   *)
(* the environment: each call to them draws its answer from the answers    *)
(* the real service can give.                                              *)
(***************************************************************************)
EXTENDS Integers, Sequences, FiniteSets, TLC

\* ------------------------------------------------------------- bounds
\* Number of /analyze requests that may be in flight together.
NumRequests == 2
\* Number of distinct readings of time.time() the requests can obtain.
MaxClock == 2

Requests == 1..NumRequests
Timestamps == 1..MaxClock

\* ------------------------------------------------------------- values
\* Python's None: a value that is no string, number, list or dict.
None == [none |-> TRUE]

\* Python's empty dict {}.
EmptyDict == [k \in {} |-> ""]

\* A JSON value sent as "city": a string (its characters), or something else.
JStr(chars) == [str |-> TRUE, chars |-> chars]
JNull == [str |-> FALSE, chars |-> <<>>]

Delhi == <<"D", "e", "l", "h", "i">>
Paris == <<"P", "a", "r", "i", "s">>
NewDelhi == <<"N", "e", "w", " ", "D", "e", "l", "h", "i">>
delhi == <<"d", "e", "l", "h", "i">>

\* The values of data.get('city') the requests are drawn from: Delhi with a
\* capital, another city, and a missing field (None).
Cities == {JStr(Delhi), JStr(Paris), JNull}

\* What the geocoder answers with when it finds a place.
Locations == {[latitude |-> 28, longitude |-> 77]}

UpperCase == <<"A", "B", "C", "D", "E", "F", "G", "H", "I", "J", "K", "L", "M",
               "N", "O", "P", "Q", "R", "S", "T", "U", "V", "W", "X", "Y", "Z">>
LowerCase == <<"a", "b", "c", "d", "e", "f", "g", "h", "i", "j", "k", "l", "m",
               "n", "o", "p", "q", "r", "s", "t", "u", "v", "w", "x", "y", "z">>

\* str.lower() on one character and on a string.
LowerChar(c) ==
    IF \E k \in DOMAIN UpperCase : UpperCase[k] = c
    THEN LowerCase[CHOOSE k \in DOMAIN UpperCase : UpperCase[k] = c]
    ELSE c
Lower(s) == [k \in DOMAIN s |-> LowerChar(s[k])]

\* A variant of line 29 that compares without .lower(); C3_Fallback tells it
\* apart on "Delhi".
IsDelhi_CaseSensitive(c) == c.chars = delhi

\* Line 29: city_name.lower() == 'delhi'.
IsDelhi(c) == Lower(c.chars) = delhi

\* str(time.time()): the decimal text of the clock reading.
Str(t) == ToString(t)

\* dict assignment d[k] = v and dict.get(k, default).
Put(d, k, v) == [x \in DOMAIN d \cup {k} |-> IF x = k THEN v ELSE d[x]]
Get(d, k, default) == IF k \in DOMAIN d THEN d[k] ELSE default

\* ---------------------------------------------------- satellite_core.py
MandatoryBands == <<"NDVI", "EVI", "NDWI", "NDBI", "LST">>

\* The exception messages the pipeline raises itself.
NoLandsat == "No Landsat images found for the given region and time"
NoModis == "No MODIS albedo images found"
NoSentinel == "No Sentinel-5P NO2 images found"
MapIdFailed(b) ==
    CASE b = "NDVI" -> "Failed to get map ID for NDVI"
      [] b = "EVI" -> "Failed to get map ID for EVI"
      [] b = "NDWI" -> "Failed to get map ID for NDWI"
      [] b = "NDBI" -> "Failed to get map ID for NDBI"
      [] b = "LST" -> "Failed to get map ID for LST"
\* Any error the earth-observation client raises by itself.
EEException == "ee.EEException"

\* A tile descriptor as getMapId returns it: with or without 'tile_fetcher'.
UrlFormat == "https://earthengine.googleapis.com/{z}/{x}/{y}"
Descriptors == {[tile_fetcher |-> TRUE, url_format |-> UrlFormat],
                [tile_fetcher |-> FALSE, url_format |-> ""]}

\* The answer of the remote service to one call: how many source images match
\* the region and dates (fetchers), the tile descriptor (getMapId), or an error
\* of the client.
Answer(images, desc, raised) == [images |-> images, desc |-> desc, raised |-> raised]
NoAnswer == Answer(1, [tile_fetcher |-> TRUE, url_format |-> UrlFormat], FALSE)
CountAnswers == {Answer(0, NoAnswer.desc, FALSE), Answer(1, NoAnswer.desc, FALSE),
                 Answer(1, NoAnswer.desc, TRUE)}
TileAnswers == {Answer(1, d, FALSE) : d \in Descriptors}
    \cup {Answer(1, NoAnswer.desc, TRUE)}

\* An entry of the log of remote calls: the fetcher called, or the layer whose
\* tile descriptor was requested and whether it came without 'tile_fetcher'.
Call(name, lacks) == [call |-> name, lacks |-> lacks]
\* Lines 159, 164, 166, 168, 170: 'tile_fetcher' not in map_id.
Lacks(a) == ~a.raised /\ ~a.desc.tile_fetcher

\* ------------------------------------------------------------ responses
NoResponse == [status |-> 0, keys |-> {}, request_id |-> "", error |-> <<>>,
               center |-> None, map_data |-> None]
\* A response Flask itself produces for an exception no handler caught, or for
\* a body it refuses: no JSON object of the application, no request_id.
FrameworkError(status) == [NoResponse EXCEPT !.status = status]
ErrorResponse(status, error, rid) ==
    [NoResponse EXCEPT !.status = status, !.keys = {"error", "request_id"},
                       !.error = error, !.request_id = rid]
SuccessResponse(c, m, rid) ==
    [NoResponse EXCEPT !.status = 200, !.keys = {"center", "map_data", "request_id"},
                       !.center = c, !.map_data = m, !.request_id = rid]

\* ----------------------------------------------- values of serve_map
\* Line 58, <float:lat>: float() of the URL segment, then str() at lines 68-69.
\* A float keeps neither the leading zeros of the whole part nor the trailing
\* zeros of the fraction.
RECURSIVE StripTrailingZeros(_)
StripTrailingZeros(digits) ==
    IF Len(digits) > 1 /\ digits[Len(digits)] = "0"
    THEN StripTrailingZeros(SubSeq(digits, 1, Len(digits) - 1))
    ELSE digits
RECURSIVE StripLeadingZeros(_)
StripLeadingZeros(digits) ==
    IF Len(digits) > 1 /\ digits[1] = "0"
    THEN StripLeadingZeros(Tail(digits))
    ELSE digits
Float(segment) == [whole |-> StripLeadingZeros(segment.whole),
                   frac |-> StripTrailingZeros(segment.frac)]
StrFloat(f) == f.whole \o <<".">> \o f.frac

\* str.replace(old, new) on a text given as its pieces.
Replace(text, old, new) == [k \in DOMAIN text |-> IF text[k] = old THEN new ELSE text[k]]

CenterLat == <<"{{centerLat}}">>
CenterLon == <<"{{centerLon}}">>
CityPlaceholder == <<"{{city}}">>

\* Lines 68-70.
Substitute(text, c, lat, lon) ==
    Replace(Replace(Replace(text, CenterLat, StrFloat(lat)), CenterLon, StrFloat(lon)),
            CityPlaceholder, c)

\* The template file: absent, present and readable, or present but not
\* readable (a directory, no permission, not text).
MapHtml == << <<"<h1>">>, CityPlaceholder, <<"</h1>">>, CenterLat, <<",">>, CenterLon,
              CityPlaceholder >>
Templates == {[exists |-> FALSE, readable |-> FALSE, content |-> None],
              [exists |-> TRUE, readable |-> TRUE, content |-> MapHtml],
              [exists |-> TRUE, readable |-> FALSE, content |-> None]}

\* The URLs /map/<city>/<lat>/<lon> the clients request.
MapUrls == {[city |-> Delhi, lat |-> [whole |-> <<"1", "2">>, frac |-> <<"3", "4">>],
             lon |-> [whole |-> <<"5", "6">>, frac |-> <<"7", "8">>]],
            [city |-> CenterLat, lat |-> [whole |-> <<"0", "7">>, frac |-> <<"5", "0">>],
             lon |-> [whole |-> <<"0">>, frac |-> <<"0">>]]}
NoArgs == [city |-> <<>>, lat |-> [whole |-> <<>>, frac |-> <<>>],
           lon |-> [whole |-> <<>>, frac |-> <<>>]]

NoMapResponse == [status |-> 0, error |-> <<>>, html |-> None, content_type |-> ""]
MapError(status, error) == [NoMapResponse EXCEPT !.status = status, !.error = error,
                                                 !.content_type = "application/json"]
MapPage(html) == [NoMapResponse EXCEPT !.status = 200, !.html = html,
                                       !.content_type = "text/html"]

VARIABLES
    progress,     \* app.py line 16: the module-level dict progress
    pc,           \* per request: the line of analyze_city / process_satellite_data it is at
    city,         \* per request: city_name
    request_id,   \* per request: request_id
    location,     \* per request: location
    center,       \* per request: center
    i,            \* per request: the loop variable of line 40
    map_data,     \* per request: map_data of analyze_city
    exc,          \* per request: the message of the exception being handled
    response,     \* per request: the HTTP response returned
    lookups,      \* per request: the calls of geolocator.geocode and their results
    written,      \* per request: the values it assigned to progress[request_id]
    band,         \* per request: index of the loop of satellite_core.py line 153
    sat_map_data, \* per request: map_data of process_satellite_data
    remote,       \* per request: the remote service's answer to the latest call
    called,       \* per request: the fetchers and getMapId calls made
    polled,       \* the response of get_progress, when the step is a poll
    template,     \* the file /home/adityadm2110/mysite/static/map.html
    map_pc,       \* the line of serve_map the /map request is at
    map_args,     \* city, lat, lon of the /map request
    exists_seen,  \* what os.path.exists answered at line 63
    html_content, \* html_content of serve_map
    map_response  \* the HTTP response of serve_map

\* The locals of analyze_city, of its geocoding block, and of the pipeline.
appVars == <<request_id, center, i, map_data, response>>
geoVars == <<city, location, lookups>>
satVars == <<band, sat_map_data, remote, called>>
mapVars == <<template, map_pc, map_args, exists_seen, html_content, map_response>>
analyzeVars == <<pc, exc, written, appVars, geoVars, satVars>>
vars == <<progress, analyzeVars, polled, mapVars>>

Init ==
    /\ progress = EmptyDict
    /\ pc = [r \in Requests |-> "idle"]
    /\ city = [r \in Requests |-> JNull]
    /\ request_id = [r \in Requests |-> ""]
    /\ location = [r \in Requests |-> None]
    /\ center = [r \in Requests |-> None]
    /\ i = [r \in Requests |-> 0]
    /\ map_data = [r \in Requests |-> None]
    /\ exc = [r \in Requests |-> ""]
    /\ response = [r \in Requests |-> NoResponse]
    /\ lookups = [r \in Requests |-> <<>>]
    /\ written = [r \in Requests |-> <<>>]
    /\ band = [r \in Requests |-> 0]
    /\ sat_map_data = [r \in Requests |-> None]
    /\ remote = [r \in Requests |-> NoAnswer]
    /\ called = [r \in Requests |-> <<>>]
    /\ polled = None
    /\ template = [exists |-> TRUE, readable |-> TRUE, content |-> MapHtml]
    /\ map_pc = "idle"
    /\ map_args = NoArgs
    /\ exists_seen = FALSE
    /\ html_content = None
    /\ map_response = NoMapResponse

\* The step is no poll: it returns no response of get_progress.
NoPoll == polled' = None

\* progress[request_id] = v by request r.
SetProgress(r, v) ==
    /\ progress' = Put(progress, request_id[r], v)
    /\ written' = [written EXCEPT ![r] = Append(@, v)]

Goto(r, l) == pc' = [pc EXCEPT ![r] = l]

\* return jsonify(...), status: the handler ends.
Return(r, resp) ==
    /\ response' = [response EXCEPT ![r] = resp]
    /\ Goto(r, "done")

\* ------------------------------------------------- app.py analyze_city
\* Lines 20-21 on a body Flask or data.get cannot handle: request.get_json()
\* refuses a body that is not JSON (400 or 415; older releases return None), and
\* data.get raises AttributeError on None or on a JSON value that is not an
\* object.  Both happen before the first try, so Flask answers by itself.
analyze_bad_body(r) ==
    /\ pc[r] = "idle"
    /\ \E status \in {400, 415, 500} : Return(r, FrameworkError(status))
    /\ UNCHANGED <<progress, exc, written, request_id, center, i, map_data,
                   geoVars, satVars, mapVars>>
    /\ NoPoll

\* Lines 20-24 on a JSON object: read city, take the clock, create the entry.
analyze_begin(r) ==
    /\ pc[r] = "idle"
    /\ \E c \in Cities, t \in Timestamps :
          /\ city' = [city EXCEPT ![r] = c]
          /\ request_id' = [request_id EXCEPT ![r] = Str(t)]
          /\ progress' = Put(progress, Str(t), 0)
    /\ written' = [written EXCEPT ![r] = Append(@, 0)]
    /\ Goto(r, "l27")
    /\ UNCHANGED <<exc, center, i, map_data, response, location, lookups,
                   satVars, mapVars>>
    /\ NoPoll

\* geolocator.geocode(query): a location, None, or an exception.
Geocode(r, query, found, notfound) ==
    \/ \E loc \in Locations :
          /\ location' = [location EXCEPT ![r] = loc]
          /\ lookups' = [lookups EXCEPT ![r] =
                            Append(@, [query |-> query, result |-> "found"])]
          /\ Goto(r, found)
          /\ exc' = exc
    \/ /\ location' = [location EXCEPT ![r] = None]
       /\ lookups' = [lookups EXCEPT ![r] =
                         Append(@, [query |-> query, result |-> "none"])]
       /\ Goto(r, notfound)
       /\ exc' = exc
    \/ /\ location' = location
       /\ lookups' = [lookups EXCEPT ![r] =
                         Append(@, [query |-> query, result |-> "raised"])]
       /\ Goto(r, "l36")
       /\ exc' = [exc EXCEPT ![r] = "GeocoderServiceError"]

\* Lines 27-28.
analyze_geocode(r) ==
    /\ pc[r] = "l27"
    /\ Geocode(r, city[r], "l34", "l29")
    /\ UNCHANGED <<progress, written, appVars, city, satVars, mapVars>>
    /\ NoPoll

\* Line 29; .lower() raises AttributeError on a city that is no string.
analyze_is_delhi(r) ==
    /\ pc[r] = "l29"
    /\ IF ~city[r].str
       THEN /\ Goto(r, "l36")
            /\ exc' = [exc EXCEPT ![r] = "AttributeError"]
       ELSE /\ Goto(r, IF IsDelhi(city[r]) THEN "l30" ELSE "l32")
            /\ exc' = exc
    /\ UNCHANGED <<progress, written, appVars, geoVars, satVars, mapVars>>
    /\ NoPoll

\* Lines 30-31.
analyze_fallback(r) ==
    /\ pc[r] = "l30"
    /\ Geocode(r, JStr(NewDelhi), "l34", "l32")
    /\ UNCHANGED <<progress, written, appVars, city, satVars, mapVars>>
    /\ NoPoll

\* A variant of line 32 that cleans the entry up instead of marking it failed;
\* C10_Terminal tells it apart.
analyze_not_found_Cleanup(r) ==
    /\ pc[r] = "l32"
    /\ progress' = [id \in DOMAIN progress \ {request_id[r]} |-> progress[id]]
    /\ written' = [written EXCEPT ![r] = Append(@, -1)]
    /\ Goto(r, "l33")
    /\ UNCHANGED <<exc, appVars, geoVars, satVars, mapVars>>
    /\ NoPoll

\* Line 32.
analyze_not_found(r) ==
    /\ pc[r] = "l32"
    /\ SetProgress(r, -1)
    /\ Goto(r, "l33")
    /\ UNCHANGED <<exc, appVars, geoVars, satVars, mapVars>>
    /\ NoPoll

\* Line 33.
analyze_return_404(r) ==
    /\ pc[r] = "l33"
    /\ Return(r, ErrorResponse(404, <<"City not found">>, request_id[r]))
    /\ UNCHANGED <<progress, exc, written, request_id, center, i, map_data,
                   geoVars, satVars, mapVars>>
    /\ NoPoll

\* Line 34, and the first value of range(10, 100, 10).  city_name and location
\* are not read again: the geocoding block's locals end here.
analyze_center(r) ==
    /\ pc[r] = "l34"
    /\ center' = [center EXCEPT ![r] = <<location[r].latitude, location[r].longitude>>]
    /\ i' = [i EXCEPT ![r] = 10]
    /\ city' = [city EXCEPT ![r] = JNull]
    /\ location' = [location EXCEPT ![r] = None]
    /\ lookups' = [lookups EXCEPT ![r] = <<>>]
    /\ Goto(r, "l41")
    /\ UNCHANGED <<progress, exc, written, request_id, map_data, response,
                   satVars, mapVars>>
    /\ NoPoll

\* Line 36.
analyze_geocode_except(r) ==
    /\ pc[r] = "l36"
    /\ SetProgress(r, -1)
    /\ Goto(r, "l37")
    /\ UNCHANGED <<exc, appVars, geoVars, satVars, mapVars>>
    /\ NoPoll

\* Line 37.
analyze_return_geocode_500(r) ==
    /\ pc[r] = "l37"
    /\ Return(r, ErrorResponse(500, <<"Geocoding error: ", exc[r]>>, request_id[r]))
    /\ UNCHANGED <<progress, exc, written, request_id, center, i, map_data,
                   geoVars, satVars, mapVars>>
    /\ NoPoll

\* A variant of the loop of line 40 that runs through range(10, 101, 10);
\* C9_Sequence tells it apart.
analyze_step_Through100(r) ==
    /\ pc[r] = "l41"
    /\ SetProgress(r, i[r])
    /\ IF i[r] + 10 <= 100
       THEN /\ i' = [i EXCEPT ![r] = @ + 10]
            /\ pc' = pc
       ELSE /\ i' = i
            /\ Goto(r, "l142")
    /\ UNCHANGED <<exc, request_id, center, map_data, response, geoVars,
                   satVars, mapVars>>
    /\ NoPoll

\* Lines 40-42: one turn of the loop; after the last one, the call of line 43.
analyze_step(r) ==
    /\ pc[r] = "l41"
    /\ SetProgress(r, i[r])
    /\ IF i[r] + 10 < 100
       THEN /\ i' = [i EXCEPT ![r] = @ + 10]
            /\ pc' = pc
       ELSE /\ i' = i
            /\ Goto(r, "l142")
    /\ UNCHANGED <<exc, request_id, center, map_data, response, geoVars,
                   satVars, mapVars>>
    /\ NoPoll

\* Line 44.
analyze_complete(r) ==
    /\ pc[r] = "l44"
    /\ SetProgress(r, 100)
    /\ Goto(r, "l45")
    /\ UNCHANGED <<exc, appVars, geoVars, satVars, mapVars>>
    /\ NoPoll

\* Lines 45-49.
analyze_return_200(r) ==
    /\ pc[r] = "l45"
    /\ Return(r, SuccessResponse(center[r], map_data[r], request_id[r]))
    /\ UNCHANGED <<progress, exc, written, request_id, center, i, map_data,
                   geoVars, satVars, mapVars>>
    /\ NoPoll

\* Line 51.
analyze_except(r) ==
    /\ pc[r] = "l51"
    /\ SetProgress(r, -1)
    /\ Goto(r, "l52")
    /\ UNCHANGED <<exc, appVars, geoVars, satVars, mapVars>>
    /\ NoPoll

\* Line 52.
analyze_return_500(r) ==
    /\ pc[r] = "l52"
    /\ Return(r, ErrorResponse(500, <<"Satellite data error: ", exc[r]>>, request_id[r]))
    /\ UNCHANGED <<progress, exc, written, request_id, center, i, map_data,
                   geoVars, satVars, mapVars>>
    /\ NoPoll

\* ------------------------------------ satellite_core.py process_satellite_data
\* What a step of the pipeline leaves alone: everything of app.py.
\* Lines 174-176: the exception leaves process_satellite_data, whose map_data
\* is lost, for the handler of app.py line 50.
Raise(r, msg) ==
    /\ exc' = [exc EXCEPT ![r] = msg]
    /\ sat_map_data' = [sat_map_data EXCEPT ![r] = None]
    /\ band' = [band EXCEPT ![r] = 0]
    /\ Goto(r, "l51")

\* Line 142: the region of interest; the client raises on a radius or a centre
\* it cannot use.
process_roi(r) ==
    /\ pc[r] = "l142"
    /\ \/ /\ Goto(r, "l146")
          /\ UNCHANGED <<exc, band, sat_map_data>>
       \/ Raise(r, EEException)
    /\ UNCHANGED <<remote, called, map_data>>
    /\ UNCHANGED <<progress, written, request_id, center, i, response, geoVars, mapVars>>
    /\ NoPoll

\* A variant of the counting fetchers without the test `if count == 0`;
\* C6_CountingFetchers tells it apart.
CountingFetcher_NoCheck(r, at, fn, empty, next) ==
    /\ pc[r] = at
    /\ called' = [called EXCEPT ![r] = Append(@, Call(fn, FALSE))]
    /\ \E a \in CountAnswers :
          /\ remote' = [remote EXCEPT ![r] = a]
          /\ IF a.raised THEN Raise(r, EEException)
             ELSE /\ Goto(r, next)
                  /\ UNCHANGED <<exc, band, sat_map_data>>
    /\ UNCHANGED map_data
    /\ UNCHANGED <<progress, written, request_id, center, i, response, geoVars, mapVars>>
    /\ NoPoll

\* A fetcher that counts the matching source images and refuses an empty
\* collection: get_landsat_data, get_modis_albedo, get_sentinel5p_air_quality.
CountingFetcher(r, at, fn, empty, next) ==
    /\ pc[r] = at
    /\ called' = [called EXCEPT ![r] = Append(@, Call(fn, FALSE))]
    /\ \E a \in CountAnswers :
          /\ remote' = [remote EXCEPT ![r] = a]
          /\ IF a.raised THEN Raise(r, EEException)
             ELSE IF a.images = 0 THEN Raise(r, empty)
             ELSE /\ Goto(r, next)
                  /\ UNCHANGED <<exc, band, sat_map_data>>
    /\ UNCHANGED map_data
    /\ UNCHANGED <<progress, written, request_id, center, i, response, geoVars, mapVars>>
    /\ NoPoll

\* A fetcher of one fixed image: get_srtm_dem, get_surface_water.  It makes no
\* count query; it fails only when the client does.
ImageFetcher(r, at, fn, next) ==
    /\ pc[r] = at
    /\ called' = [called EXCEPT ![r] = Append(@, Call(fn, FALSE))]
    /\ \E a \in CountAnswers :
          /\ remote' = [remote EXCEPT ![r] = a]
          /\ IF a.raised THEN Raise(r, EEException)
             ELSE /\ Goto(r, next)
                  /\ UNCHANGED <<exc, band, sat_map_data>>
    /\ UNCHANGED map_data
    /\ UNCHANGED <<progress, written, request_id, center, i, response, geoVars, mapVars>>
    /\ NoPoll

\* Lines 146-150.
get_landsat_data(r) ==
    CountingFetcher(r, "l146", "get_landsat_data", NoLandsat, "l147")
get_modis_albedo(r) ==
    CountingFetcher(r, "l147", "get_modis_albedo", NoModis, "l148")
get_srtm_dem(r) ==
    ImageFetcher(r, "l148", "get_srtm_dem", "l149")
get_surface_water(r) ==
    ImageFetcher(r, "l149", "get_surface_water", "l150")
get_sentinel5p_air_quality(r) ==
    CountingFetcher(r, "l150", "get_sentinel5p_air_quality", NoSentinel, "l152")

\* Line 152 and the first band of the loop of line 153.
process_new_map(r) ==
    /\ pc[r] = "l152"
    /\ sat_map_data' = [sat_map_data EXCEPT ![r] = EmptyDict]
    /\ band' = [band EXCEPT ![r] = 1]
    /\ Goto(r, "l154")
    /\ UNCHANGED <<exc, remote, called, map_data>>
    /\ UNCHANGED <<progress, written, request_id, center, i, response, geoVars, mapVars>>
    /\ NoPoll

\* A variant of lines 153-162 that treats a mandatory band as lines 163-170
\* treat an auxiliary layer; C5_MissingTileFetcher tells it apart.
process_band_Lenient(r) ==
    /\ pc[r] = "l154"
    /\ LET b == MandatoryBands[band[r]] IN
       /\ \E a \in TileAnswers :
             /\ remote' = [remote EXCEPT ![r] = a]
             /\ called' = [called EXCEPT ![r] = Append(@, Call(b, Lacks(a)))]
             /\ IF a.raised THEN Raise(r, EEException)
                ELSE /\ sat_map_data' = [sat_map_data EXCEPT ![r] =
                                            Put(@, b, a.desc.url_format)]
                     /\ exc' = exc
                     /\ IF band[r] < Len(MandatoryBands)
                        THEN /\ band' = [band EXCEPT ![r] = @ + 1]
                             /\ pc' = pc
                        ELSE /\ band' = band
                             /\ Goto(r, "l163")
    /\ UNCHANGED map_data
    /\ UNCHANGED <<progress, written, request_id, center, i, response, geoVars, mapVars>>
    /\ NoPoll

\* Lines 153-162: one mandatory band.
process_band(r) ==
    /\ pc[r] = "l154"
    /\ LET b == MandatoryBands[band[r]] IN
       /\ \E a \in TileAnswers :
             /\ remote' = [remote EXCEPT ![r] = a]
             /\ called' = [called EXCEPT ![r] = Append(@, Call(b, Lacks(a)))]
             /\ IF a.raised THEN Raise(r, EEException)
                ELSE IF Lacks(a) THEN Raise(r, MapIdFailed(b))
                ELSE /\ sat_map_data' = [sat_map_data EXCEPT ![r] =
                                            Put(@, b, a.desc.url_format)]
                     /\ exc' = exc
                     /\ IF band[r] < Len(MandatoryBands)
                        THEN /\ band' = [band EXCEPT ![r] = @ + 1]
                             /\ pc' = pc
                        ELSE /\ band' = band
                             /\ Goto(r, "l163")
    /\ UNCHANGED map_data
    /\ UNCHANGED <<progress, written, request_id, center, i, response, geoVars, mapVars>>
    /\ NoPoll

\* The value stored for an auxiliary layer, lines 164, 166, 168, 170.
AuxiliaryUrl(a) == IF Lacks(a) THEN "" ELSE a.desc.url_format

\* A variant of lines 163-170 that leaves the key out when the descriptor has
\* no 'tile_fetcher'; C4_NineKeys tells it apart.
AuxiliaryLayer_SkipsMissing(r, at, key, next) ==
    /\ pc[r] = at
    /\ \E a \in TileAnswers :
          /\ remote' = [remote EXCEPT ![r] = a]
          /\ called' = [called EXCEPT ![r] = Append(@, Call(key, Lacks(a)))]
          /\ IF a.raised THEN Raise(r, EEException)
             ELSE /\ sat_map_data' = [sat_map_data EXCEPT ![r] =
                                         IF Lacks(a) THEN @
                                         ELSE Put(@, key, a.desc.url_format)]
                  /\ Goto(r, next)
                  /\ UNCHANGED <<exc, band>>
    /\ UNCHANGED map_data
    /\ UNCHANGED <<progress, written, request_id, center, i, response, geoVars, mapVars>>
    /\ NoPoll

\* Lines 163-170: one auxiliary layer.
AuxiliaryLayer(r, at, key, next) ==
    /\ pc[r] = at
    /\ \E a \in TileAnswers :
          /\ remote' = [remote EXCEPT ![r] = a]
          /\ called' = [called EXCEPT ![r] = Append(@, Call(key, Lacks(a)))]
          /\ IF a.raised THEN Raise(r, EEException)
             ELSE /\ sat_map_data' = [sat_map_data EXCEPT ![r] =
                                         Put(@, key, AuxiliaryUrl(a))]
                  /\ Goto(r, next)
                  /\ UNCHANGED <<exc, band>>
    /\ UNCHANGED map_data
    /\ UNCHANGED <<progress, written, request_id, center, i, response, geoVars, mapVars>>
    /\ NoPoll

process_albedo(r) == AuxiliaryLayer(r, "l163", "albedo", "l165")
process_elevation(r) == AuxiliaryLayer(r, "l165", "elevation", "l167")
process_water(r) == AuxiliaryLayer(r, "l167", "water", "l169")
process_no2(r) == AuxiliaryLayer(r, "l169", "no2", "l173")

\* Line 173, and the assignment of app.py line 43.
process_return(r) ==
    /\ pc[r] = "l173"
    /\ map_data' = [map_data EXCEPT ![r] = sat_map_data[r]]
    /\ sat_map_data' = [sat_map_data EXCEPT ![r] = None]
    /\ band' = [band EXCEPT ![r] = 0]
    /\ Goto(r, "l44")
    /\ UNCHANGED <<exc, remote, called>>
    /\ UNCHANGED <<progress, written, request_id, center, i, response, geoVars, mapVars>>
    /\ NoPoll

\* ------------------------------------------------- app.py get_progress
\* The request ids a client may poll: every id /analyze can issue, and one it
\* never issues.
PollIds == {Str(t) : t \in Timestamps} \cup {"unknown"}

\* A variant of line 56 that reads with progress.setdefault(request_id, 0);
\* C7_PollReadsOnly tells it apart.
get_progress_SetDefault(id) ==
    /\ polled' = [request_id |-> id, progress |-> Get(progress, id, 0)]
    /\ progress' = Put(progress, id, Get(progress, id, 0))
    /\ UNCHANGED <<analyzeVars, mapVars>>

\* Line 56.
get_progress(id) ==
    /\ polled' = [request_id |-> id, progress |-> Get(progress, id, 0)]
    /\ UNCHANGED <<progress, analyzeVars, mapVars>>

\* --------------------------------------------------- app.py serve_map
mapFrame == <<progress, analyzeVars>>

\* Lines 58-59: the route matches and the converters run.
serve_map_begin ==
    /\ map_pc = "idle"
    /\ \E url \in MapUrls :
          map_args' = [city |-> url.city, lat |-> Float(url.lat), lon |-> Float(url.lon)]
    /\ map_pc' = "l63"
    /\ UNCHANGED <<template, exists_seen, html_content, map_response>>
    /\ UNCHANGED mapFrame
    /\ NoPoll

\* A variant of serve_map without the test of line 63; C8_ServeMap tells it
\* apart.
serve_map_exists_Unchecked ==
    /\ map_pc = "l63"
    /\ exists_seen' = template.exists
    /\ map_pc' = "l66"
    /\ UNCHANGED <<template, map_args, html_content, map_response>>
    /\ UNCHANGED mapFrame
    /\ NoPoll

\* Line 63.
serve_map_exists ==
    /\ map_pc = "l63"
    /\ exists_seen' = template.exists
    /\ map_pc' = IF ~template.exists THEN "l65" ELSE "l66"
    /\ UNCHANGED <<template, map_args, html_content, map_response>>
    /\ UNCHANGED mapFrame
    /\ NoPoll

\* Line 65.
serve_map_return_404 ==
    /\ map_pc = "l65"
    /\ map_response' = MapError(404, <<"map.html not found">>)
    /\ map_pc' = "done"
    /\ UNCHANGED <<template, map_args, exists_seen, html_content>>
    /\ UNCHANGED mapFrame
    /\ NoPoll

\* Lines 66-67: open and read; either raises on a file that is gone or cannot
\* be read.
serve_map_read ==
    /\ map_pc = "l66"
    /\ IF template.exists /\ template.readable
       THEN /\ html_content' = template.content
            /\ map_pc' = "l68"
       ELSE /\ html_content' = html_content
            /\ map_pc' = "l75"
    /\ UNCHANGED <<template, map_args, exists_seen, map_response>>
    /\ UNCHANGED mapFrame
    /\ NoPoll

\* Lines 68-72.
serve_map_return_200 ==
    /\ map_pc = "l68"
    /\ html_content' = Substitute(html_content, map_args.city, map_args.lat, map_args.lon)
    /\ map_response' = MapPage(html_content')
    /\ map_pc' = "done"
    /\ UNCHANGED <<template, map_args, exists_seen>>
    /\ UNCHANGED mapFrame
    /\ NoPoll

\* Lines 73-75.
serve_map_return_500 ==
    /\ map_pc = "l75"
    /\ map_response' = MapError(500, <<"Failed to serve map: ", "OSError">>)
    /\ map_pc' = "done"
    /\ UNCHANGED <<template, map_args, exists_seen, html_content>>
    /\ UNCHANGED mapFrame
    /\ NoPoll

serve_map ==
    \/ serve_map_begin
    \/ serve_map_exists
    \/ serve_map_return_404
    \/ serve_map_read
    \/ serve_map_return_200
    \/ serve_map_return_500

\* The file system: the template is created, removed or changes its mode.
template_change ==
    /\ \E t \in Templates \ {template} : template' = t
    /\ UNCHANGED <<map_pc, map_args, exists_seen, html_content, map_response>>
    /\ UNCHANGED mapFrame
    /\ NoPoll

analyze_city(r) ==
    \/ analyze_bad_body(r)
    \/ analyze_begin(r)
    \/ analyze_geocode(r)
    \/ analyze_is_delhi(r)
    \/ analyze_fallback(r)
    \/ analyze_not_found(r)
    \/ analyze_return_404(r)
    \/ analyze_center(r)
    \/ analyze_geocode_except(r)
    \/ analyze_return_geocode_500(r)
    \/ analyze_step(r)
    \/ analyze_complete(r)
    \/ analyze_return_200(r)
    \/ analyze_except(r)
    \/ analyze_return_500(r)

process_satellite_data(r) ==
    \/ process_roi(r)
    \/ get_landsat_data(r)
    \/ get_modis_albedo(r)
    \/ get_srtm_dem(r)
    \/ get_surface_water(r)
    \/ get_sentinel5p_air_quality(r)
    \/ process_new_map(r)
    \/ process_band(r)
    \/ process_albedo(r)
    \/ process_elevation(r)
    \/ process_water(r)
    \/ process_no2(r)
    \/ process_return(r)

\* One /analyze request, with the polls and the /map requests beside it.
NextOne ==
    \/ \E r \in {1} : analyze_city(r)
    \/ \E r \in {1} : process_satellite_data(r)
    \/ \E id \in PollIds : get_progress(id)
    \/ serve_map
    \/ template_change

\* NumRequests /analyze requests in flight together, and the polls.
Next ==
    \/ \E r \in Requests : analyze_city(r)
    \/ \E r \in Requests : process_satellite_data(r)
    \/ \E id \in PollIds : get_progress(id)

SpecOne == Init /\ [][NextOne]_vars
Spec == Init /\ [][Next]_vars

\* ------------------------------------------------------------ properties
Last(s) == s[Len(s)]
Range(s) == {s[k] : k \in DOMAIN s}
MandatoryKeys == Range(MandatoryBands)
AuxiliaryKeys == {"albedo", "elevation", "water", "no2"}
NineKeys == MandatoryKeys \cup AuxiliaryKeys
\* The labels of the lines of process_satellite_data.
PipelinePcs == {"l142", "l146", "l147", "l148", "l149", "l150", "l152", "l154",
                "l163", "l165", "l167", "l169", "l173"}
\* The labels at and after the handler of app.py line 50.
FailedPcs == {"l51", "l52", "done"}
HasId(r) == "request_id" \in response[r].keys
\* The requests that hold the request id `id`.
Owners(id) == {r \in Requests : request_id[r] = id}

\* C1: when an /analyze request returns a response that carries a request_id,
\* the progress map holds 100 for that id if the response is the success
\* response and -1 if it is an error response.
C1_TerminalAtReturn ==
    [][\A r \in Requests :
          (pc[r] # "done" /\ pc'[r] = "done" /\ "request_id" \in response'[r].keys)
          => progress'[response'[r].request_id] =
                 (IF response'[r].status = 200 THEN 100 ELSE -1)]_vars

\* C2: every response of /analyze is 200 with {center, map_data, request_id},
\* or 404 with {error, request_id}, or 500 with {error, request_id}; no failure
\* produces a response without a request_id.
C2_ThreeShapes ==
    \A r \in Requests :
        pc[r] = "done" =>
            \/ /\ response[r].status = 200
               /\ response[r].keys = {"center", "map_data", "request_id"}
            \/ /\ response[r].status \in {404, 500}
               /\ response[r].keys = {"error", "request_id"}

\* The request found no location: it is at or after line 32, the pipeline was
\* never invoked, and the answer is 404 'City not found' with progress -1.
NotFoundTail(r) ==
    /\ pc[r] \in {"l32", "l33", "done"}
    /\ called[r] = <<>>
    /\ map_data[r] = None
    /\ pc[r] \in {"l33", "done"} =>
           /\ Last(written[r]) = -1
           /\ progress[request_id[r]] = -1
    /\ pc[r] = "done" =>
           response[r] = ErrorResponse(404, <<"City not found">>, request_id[r])

\* C3 (as the code has it, for a city that is a string): when the direct lookup
\* returns no location, a city equal to 'delhi' in any case gets exactly one
\* second lookup, of 'New Delhi', and goes on with that location if it is
\* found; any other city gets no second lookup.  With no location after this
\* the answer is 404 'City not found', progress is -1 and the pipeline is never
\* invoked.  When the direct lookup succeeds no second lookup is made.  A city
\* that is no string and is not found is answered 500, not 404.
C3_Fallback ==
    \A r \in Requests :
        LET L == lookups[r]
            c == city[r]
        IN  /\ Len(L) <= 2
            /\ L # <<>> => L[1].query = c
            /\ (L # <<>> /\ L[1].result = "found") =>
                   /\ Len(L) = 1
                   /\ pc[r] = "l34"
                   /\ location[r] \in Locations
            /\ (L # <<>> /\ L[1].result = "none" /\ c.str) =>
                   IF Lower(c.chars) = delhi
                   THEN \/ Len(L) = 1 /\ pc[r] \in {"l29", "l30"}
                        \/ /\ Len(L) = 2
                           /\ L[2].query = JStr(NewDelhi)
                           /\ L[2].result = "found" =>
                                  pc[r] = "l34" /\ location[r] \in Locations
                           /\ L[2].result = "none" => NotFoundTail(r)
                           /\ L[2].result = "raised" => pc[r] \in {"l36", "l37", "done"}
                   ELSE /\ Len(L) = 1
                        /\ pc[r] = "l29" \/ NotFoundTail(r)
            /\ (L # <<>> /\ L[1].result = "none" /\ ~c.str) =>
                   /\ Len(L) = 1
                   /\ pc[r] \in {"l29", "l36", "l37", "done"}
                   /\ pc[r] = "done" => response[r].status = 500
            /\ response[r].status = 404 =>
                   L # <<>> /\ Last(L).result = "none" /\ c.str /\ NotFoundTail(r)
            /\ center[r] # None =>
                   \E loc \in Locations : center[r] = <<loc.latitude, loc.longitude>>

\* C3 reached: 'Delhi' was not found directly, 'New Delhi' was, and the request
\* is about to go on with that location.
C3_Witness ==
    \E r \in Requests :
        /\ pc[r] = "l34"
        /\ Len(lookups[r]) = 2
        /\ lookups[r][2].result = "found"
        /\ location[r] \in Locations

\* C3 as stated, for every city: whenever the last lookup of a request returned
\* no location, the answer is 404 'City not found'.
C3_AnyCity ==
    \A r \in Requests :
        (pc[r] = "done" /\ lookups[r] # <<>> /\ Last(lookups[r]).result = "none")
        => /\ response[r].status = 404
           /\ response[r].error = <<"City not found">>

\* C4: whenever process_satellite_data returns normally, and so whenever
\* /analyze returns 200, the keys of map_data are exactly the nine layer names,
\* whichever auxiliary tile descriptors came without 'tile_fetcher'.
C4_NineKeys ==
    \A r \in Requests :
        /\ pc[r] = "l173" => DOMAIN sat_map_data[r] = NineKeys
        /\ pc[r] \in {"l44", "l45"} => DOMAIN map_data[r] = NineKeys
        /\ map_data[r] # None => DOMAIN map_data[r] = NineKeys
        /\ (pc[r] = "done" /\ response[r].status = 200) =>
               DOMAIN response[r].map_data = NineKeys

\* C4 reached: a 200 response whose auxiliary descriptors were some present and
\* some absent.
C4_Witness ==
    \E r \in Requests :
        /\ pc[r] = "done"
        /\ response[r].status = 200
        /\ response[r].map_data["albedo"] = ""
        /\ response[r].map_data["water"] = ""
        /\ response[r].map_data["no2"] = UrlFormat

\* The map the request holds: the pipeline's while it runs, the handler's after.
CurrentMap(r) == IF pc[r] \in PipelinePcs THEN sat_map_data[r] ELSE map_data[r]

\* C5: a mandatory layer's tile descriptor without 'tile_fetcher' makes the
\* pipeline raise at that layer: no map_data is returned and /analyze answers
\* 500 with progress -1.  An auxiliary layer's descriptor without it stops
\* nothing: the key maps to the empty string, the other keys keep the value
\* their own descriptor gave, and a pipeline that raises nowhere ends in 200
\* with progress 100.
C5_MissingTileFetcher ==
    \A r \in Requests :
        \A k \in DOMAIN called[r] :
            LET e == called[r][k] IN
            /\ (e.lacks /\ e.call \in MandatoryKeys) =>
                   /\ k = Len(called[r])
                   /\ pc[r] \in FailedPcs
                   /\ exc[r] = MapIdFailed(e.call)
                   /\ map_data[r] = None
                   /\ sat_map_data[r] = None
                   /\ pc[r] \in {"l52", "done"} =>
                          /\ Last(written[r]) = -1
                          /\ progress[request_id[r]] = -1
                   /\ pc[r] = "done" =>
                          response[r] = ErrorResponse(500,
                              <<"Satellite data error: ", MapIdFailed(e.call)>>,
                              request_id[r])
            /\ (e.lacks /\ e.call \in AuxiliaryKeys) =>
                   /\ exc[r] \in {"", EEException}
                   /\ exc[r] = "" =>
                          /\ pc[r] \notin FailedPcs \ {"done"}
                          /\ CurrentMap(r)[e.call] = ""
                          /\ \A b \in MandatoryKeys : CurrentMap(r)[b] = UrlFormat
                          /\ \A j \in DOMAIN called[r] :
                                 called[r][j].call \in AuxiliaryKeys =>
                                     CurrentMap(r)[called[r][j].call] =
                                         (IF called[r][j].lacks THEN "" ELSE UrlFormat)
                          /\ pc[r] \in {"l45", "done"} =>
                                 /\ Last(written[r]) = 100
                                 /\ progress[request_id[r]] = 100
                          /\ pc[r] = "done" =>
                                 response[r] = SuccessResponse(center[r], map_data[r],
                                                               request_id[r])

\* C5 reached: /analyze answered 500 because the descriptor of NDBI had no
\* 'tile_fetcher'.
C5_Witness ==
    \E r \in Requests :
        /\ pc[r] = "done"
        /\ response[r].status = 500
        /\ called[r] # <<>>
        /\ Last(called[r]) = Call("NDBI", TRUE)

CountingFetchers == {"get_landsat_data", "get_modis_albedo", "get_sentinel5p_air_quality"}
ImageFetchers == {"get_srtm_dem", "get_surface_water"}
EmptyMessage(fn) ==
    CASE fn = "get_landsat_data" -> NoLandsat
      [] fn = "get_modis_albedo" -> NoModis
      [] fn = "get_sentinel5p_air_quality" -> NoSentinel
\* The last remote call of the request was fetcher fn, and the service had no
\* image for it.
NoImagesFor(r, fn) ==
    /\ called[r] # <<>>
    /\ Last(called[r]).call = fn
    /\ ~remote[r].raised
    /\ remote[r].images = 0

\* C6 (as the code has it): the three fetchers that query an image collection,
\* get_landsat_data, get_modis_albedo and get_sentinel5p_air_quality, fail with
\* their own message when no source image matches, and the request is aborted:
\* no later fetcher is called, no tile descriptor is requested, and /analyze
\* answers 500.  get_srtm_dem and get_surface_water load one fixed image, make
\* no count, and go on to the next fetcher.
C6_CountingFetchers ==
    \A r \in Requests :
        /\ \A fn \in CountingFetchers :
               NoImagesFor(r, fn) =>
                   /\ pc[r] \in FailedPcs
                   /\ exc[r] = EmptyMessage(fn)
                   /\ \A k \in DOMAIN called[r] :
                          called[r][k].call \notin NineKeys
                   /\ map_data[r] = None
                   /\ pc[r] = "done" =>
                          response[r] = ErrorResponse(500,
                              <<"Satellite data error: ", EmptyMessage(fn)>>,
                              request_id[r])
        /\ NoImagesFor(r, "get_srtm_dem") => pc[r] = "l149" /\ exc[r] = ""
        /\ NoImagesFor(r, "get_surface_water") => pc[r] = "l150" /\ exc[r] = ""

\* C6 reached: /analyze answered 500 because no MODIS albedo image matched.
C6_Witness ==
    \E r \in Requests :
        /\ pc[r] = "done"
        /\ NoImagesFor(r, "get_modis_albedo")
        /\ response[r].status = 500

\* C6 as stated, for every fetcher: after any fetcher that had no matching
\* image, the request is in the handler of the failure or answered 500.
C6_EveryFetcher ==
    \A r \in Requests :
        \A fn \in CountingFetchers \cup ImageFetchers :
            NoImagesFor(r, fn) =>
                /\ pc[r] \in FailedPcs
                /\ pc[r] = "done" => response[r].status = 500

\* C7: a poll returns the integer stored in the progress map for the id it
\* names, and 0 for an id that has no entry; the poll adds, removes and changes
\* no entry, so an id without an entry has none after the poll.
C7_PollReadsOnly ==
    [][polled' # None =>
          LET id == polled'.request_id IN
          /\ id \in DOMAIN progress => polled'.progress = progress[id]
          /\ id \notin DOMAIN progress =>
                 polled'.progress = 0 /\ id \notin DOMAIN progress'
          /\ DOMAIN progress' = DOMAIN progress
          /\ \A x \in DOMAIN progress : progress'[x] = progress[x]]_vars

\* C7 reached: a poll of an id /analyze never issued returned 0 while the map
\* held another request's entry, and the id still has no entry.
C7_Witness ==
    /\ polled # None
    /\ polled.request_id = "unknown"
    /\ polled.progress = 0
    /\ DOMAIN progress # {}
    /\ "unknown" \notin DOMAIN progress

\* The page serve_map is to return: each placeholder of the template replaced,
\* every other piece as in the file.
ExpectedPage ==
    [k \in DOMAIN MapHtml |->
        CASE MapHtml[k] = CenterLat -> StrFloat(map_args.lat)
          [] MapHtml[k] = CenterLon -> StrFloat(map_args.lon)
          [] MapHtml[k] = CityPlaceholder -> map_args.city
          [] OTHER -> MapHtml[k]]

\* The answer of a finished /map request against what it saw of the file.
MapAnswer ==
    /\ map_response.status \in {200, 404, 500}
    /\ (map_response.status = 404) = ~exists_seen
    /\ ~exists_seen => map_response = MapError(404, <<"map.html not found">>)
    /\ (map_response.status = 500) = (exists_seen /\ html_content = None)
    /\ map_response.status = 200 =>
           /\ map_response.html = ExpectedPage
           /\ map_response.content_type = "text/html"

\* C8: /map answers 404 {"error": "map.html not found"} exactly when the
\* template was absent at the existence check, 500 when it existed but reading
\* it failed (the file removed after the check included), and 200 with the
\* substituted page otherwise; no step of it changes the progress map.
C8_ServeMap ==
    [][/\ map_pc' = "done" => MapAnswer'
       /\ map_pc' # map_pc => progress' = progress]_vars

\* C8 reached: the file existed at the check, was gone at the open, and /map
\* answered 500 while the progress map held an entry.
C8_Witness ==
    /\ map_pc = "done"
    /\ exists_seen
    /\ map_response.status = 500
    /\ DOMAIN progress # {}

\* The values written by one request: 0, then 10, 20, ... in order, then at
\* most one of -1 (anywhere) and 100 (after 90), and nothing after it.
WrittenInOrder(w) ==
    /\ w # <<>> => w[1] = 0
    /\ \A j \in 2..Len(w) :
           \/ j <= 10 /\ w[j] = 10 * (j - 1)
           \/ j = Len(w) /\ w[j] = -1
           \/ j = Len(w) /\ j = 11 /\ w[j] = 100

ProgressValues == {10 * k : k \in 0..10} \cup {-1}

C9_State ==
    /\ \A r \in Requests :
           LET w == written[r] IN
           /\ WrittenInOrder(w)
           /\ (Len(w) >= 2 /\ w[2] = 10) => center[r] # None
           /\ (\/ pc[r] \in {"l33", "l37"}
               \/ pc[r] = "done" /\ response[r].status = 404
               \/ /\ pc[r] = "done" /\ response[r].status = 500 /\ HasId(r)
                  /\ response[r].error[1] = "Geocoding error: ") => w = <<0, -1>>
           /\ (pc[r] = "done" /\ HasId(r)) => Last(w) \in {100, -1}
           /\ (pc[r] \notin {"l33", "l37", "l45", "l52", "done"} /\ w # <<>>) =>
                  Last(w) \in {10 * k : k \in 0..9}
           /\ (pc[r] \in PipelinePcs \/ called[r] # <<>>) =>
                  Len(w) >= 10 /\ w[10] = 90
           /\ 100 \in Range(w) => DOMAIN map_data[r] = NineKeys
    /\ \A id \in DOMAIN progress : progress[id] \in ProgressValues
    /\ polled # None => polled.progress \in ProgressValues

\* C9: one /analyze request writes to its entry 0, then, only with a location,
\* 10, 20, ..., 90 once each in order, then exactly one of 100 and -1; a failed
\* geocoding gives 0 then -1.  A poller reads only values of {0, 10, ..., 100,
\* -1}; the entry never decreases except by the step to -1; 90 is written
\* before the pipeline starts and 100 only after it returned the nine-key map.
C9_Sequence ==
    [][/\ C9_State'
       /\ \A id \in DOMAIN progress :
              progress'[id] >= progress[id] \/ progress'[id] = -1]_vars

\* C9 reached: the request wrote 0, 10, ..., 90, 100 and a poll read the 100.
C9_Witness ==
    /\ Len(written[1]) = 11
    /\ Last(written[1]) = 100
    /\ polled # None
    /\ polled.progress = 100

\* C10: 100 and -1 are terminal per request id under any interleaving of
\* /analyze and /progress requests, provided no two requests hold the same id:
\* the entry is not written again, no entry is ever removed, and an entry is
\* written only by the request that holds its id.
C10_Terminal ==
    [][/\ \A id \in DOMAIN progress :
              /\ id \in DOMAIN progress'
              /\ (progress[id] \in {100, -1} /\ Cardinality(Owners(id)') <= 1) =>
                     /\ progress'[id] = progress[id]
                     /\ \A r \in Owners(id) : written'[r] = written[r]
       /\ \A id \in DOMAIN progress' :
              (id \notin DOMAIN progress \/ progress'[id] # progress[id]) =>
                  \E r \in Requests :
                      /\ request_id'[r] = id
                      /\ written'[r] # written[r]]_vars

\* C10 reached: one request's entry is terminal while another request, with
\* another id, is writing its own steps.
C10_Witness ==
    \E r1, r2 \in Requests :
        /\ pc[r1] = "done"
        /\ HasId(r1)
        /\ progress[request_id[r1]] \in {100, -1}
        /\ pc[r2] = "l41"
        /\ i[r2] > 10
        /\ request_id[r2] # request_id[r1]
====
